---- MODULE Spec2Model ----
(***************************************************************************)
(* EduTrack (src/app.py): the Streamlit session state of the topic/student *)
(* rating engine and the handlers that change it.                          *)
(*                                                                         *)
(* Python lists are sequences; a Python index i (0-based) addresses the    *)
(* sequence element i + 1.  Student names are sequences of characters, so  *)
(* that len() and strip() are computed; topic names are strings.           *)
(***************************************************************************)
EXTENDS Integers, Sequences, FiniteSets, TLC

VARIABLES
    students,               \* st.session_state.students
    student_name,           \* st.session_state.student_name
    topics,                 \* st.session_state.topics
    ratings,                \* st.session_state.ratings
    edit_modes,             \* st.session_state.edit_modes
    delete_topic_index,     \* st.session_state.delete_topic_index
    pending_delete_topic,   \* st.session_state.pending_delete_topic
    edit,                   \* st.session_state[f"edit_{i}"], a function on the indices i whose key exists
    message,                \* the text the last script run passed to st.error / st.success ("" when none)
    name_input,             \* the argument `name` validate_student_name is studied on (SpecValidate)
    entries                 \* how often the user has opened a topic editor or changed a rating

vars == <<students, student_name, topics, ratings, edit_modes, delete_topic_index,
          pending_delete_topic, edit, message, name_input, entries>>

----------------------------------------------------------------------------
(* Bounds of the model *)

MaxTopics == 2          \* "+ Add New Topic" is not clicked beyond this many topics
MaxEntries == 1         \* editors opened plus ratings changed in one session
MaxRatings == 2         \* ratings changed in one session without topic editing

(* Program constants *)

DEFAULT_TOPIC == "Topic 1"
DEFAULT_RATING == "-"
MAX_STUDENT_NAME_LENGTH == 128
MaxChars == 32          \* max_chars of the student-name text_input
None == -1              \* Python's None in the two index slots

RatingOptions == <<"-", "~", "+">>

----------------------------------------------------------------------------
(* Inputs *)

Whitespace == {" ", "\t"}

NameAl == <<"A", "l">>
Nameal == <<"a", "l">>
NameBo == <<"B", "o">>
Repeat(c, n) == [k \in 1..n |-> c]

\* what the user types in the name box (at most MaxChars characters)
TypedNames == { <<>>, NameAl, Nameal }

\* what the user types in a topic's edit box
EditTexts == { "" }

\* arguments of validate_student_name: every rule, and the rules two at a time
ValidateNames ==
    { <<>>, NameAl, Nameal, NameBo,
      <<" ">> \o NameAl, NameAl \o <<"\t">>, <<" ">>,
      Repeat("a", MAX_STUDENT_NAME_LENGTH),
      Repeat("a", MAX_STUDENT_NAME_LENGTH + 1),
      <<" ">> \o Repeat("a", MAX_STUDENT_NAME_LENGTH),
      Repeat("a", MAX_STUDENT_NAME_LENGTH - 1) \o <<" ">> }

----------------------------------------------------------------------------
(* Pure helpers *)

RECURSIVE lstrip(_)
lstrip(s) == IF s # <<>> /\ Head(s) \in Whitespace THEN lstrip(Tail(s)) ELSE s

RECURSIVE rstrip(_)
rstrip(s) ==
    IF s # <<>> /\ s[Len(s)] \in Whitespace THEN rstrip(SubSeq(s, 1, Len(s) - 1)) ELSE s

\* name.strip()
strip(s) == rstrip(lstrip(s))

\* del lst[i]
Del(lst, i) == SubSeq(lst, 1, i) \o SubSeq(lst, i + 2, Len(lst))

\* x in lst
In(x, lst) == \E k \in 1..Len(lst) : lst[k] = x

\* a variant of IndexOf: the last index holding x
LastIndexOf(x, lst) == CHOOSE i \in 0..(Len(lst) - 1) :
                          /\ lst[i + 1] = x
                          /\ \A j \in (i + 1)..(Len(lst) - 1) : lst[j + 1] # x

\* lst.index(x), for x in lst: the first index holding x
IndexOf(x, lst) == CHOOSE i \in 0..(Len(lst) - 1) :
                      /\ lst[i + 1] = x
                      /\ \A j \in 0..(i - 1) : lst[j + 1] # x

\* [v] * n
Times(v, n) == [k \in 1..n |-> v]

\* a variant of map_rating: the values of '+' and '~' exchanged
map_rating_swapped(rating) ==
    CASE rating = "+" -> 5
      [] rating = "~" -> 10
      [] rating = "-" -> 0
      [] OTHER -> 0

map_rating(rating) ==
    CASE rating = "+" -> 10
      [] rating = "~" -> 5
      [] rating = "-" -> 0
      [] OTHER -> 0

\* a variant of NameExists: the roster is not searched
NameNeverExists(name, studs) == FALSE

\* any(student['Name'] == name for student in students)
NameExists(name, studs) == \E k \in 1..Len(studs) : studs[k].Name = name

\* a variant of validate_student_name: the whitespace rule before the length rule
validate_whitespace_first(name, studs) ==
    IF name = <<>> THEN "Student name cannot be empty."
    ELSE IF name # strip(name) THEN "Student name cannot have leading or trailing whitespaces."
    ELSE IF Len(name) > MAX_STUDENT_NAME_LENGTH THEN "Student name cannot exceed the maximum length."
    ELSE IF NameExists(name, studs) THEN "Student already exists."
    ELSE "None"

\* the error text, or "None"
validate_student_name(name, studs) ==
    IF name = <<>> THEN "Student name cannot be empty."
    ELSE IF Len(name) > MAX_STUDENT_NAME_LENGTH THEN "Student name cannot exceed the maximum length."
    ELSE IF name # strip(name) THEN "Student name cannot have leading or trailing whitespaces."
    ELSE IF NameExists(name, studs) THEN "Student already exists."
    ELSE "None"

----------------------------------------------------------------------------
(* The script run: which widgets exist, and in which order handlers run *)

Indices == 0..(Len(topics) - 1)

\* render_topic_interface reads st.session_state[f"edit_{k}"] for every row k in
\* edit mode; a missing key raises KeyError and ends the script run there.
RowRenders(k) == edit_modes[k + 1] => k \in DOMAIN edit

\* the widgets of row i exist when the rows 0..i were rendered
Rendered(i) == \A k \in 0..i : RowRenders(k)

\* the code after render_topic_interface() runs when every row was rendered
RenderCompletes == \A k \in Indices : RowRenders(k)

\* add_student calls process_topic_deletion() before it renders or handles anything,
\* so a confirmed deletion is processed before any other handler runs
NoDeletionAuthorized == delete_topic_index = None

----------------------------------------------------------------------------
Init ==
    /\ students = <<>>
    /\ student_name = <<>>
    /\ topics = <<DEFAULT_TOPIC>>
    /\ ratings = <<DEFAULT_RATING>>
    /\ edit_modes = <<FALSE>>
    /\ delete_topic_index = None
    /\ pending_delete_topic = None
    /\ edit = <<>>
    /\ message = ""
    /\ name_input = <<>>
    /\ entries = 0

----------------------------------------------------------------------------
(* Topic registry handlers *)

\* st.session_state[f"edit_{i}"] = v
SetKey(f, i, v) == [k \in (DOMAIN f) \cup {i} |-> IF k = i THEN v ELSE f[k]]

toggle_edit_mode(index) ==
    LET flipped == ~edit_modes[index + 1] IN
    /\ edit_modes' = [edit_modes EXCEPT ![index + 1] = flipped]
    /\ edit' = IF flipped THEN SetKey(edit, index, topics[index + 1]) ELSE edit
    /\ message' = ""
    /\ UNCHANGED <<students, student_name, topics, ratings, delete_topic_index,
                   pending_delete_topic, name_input>>

\* the pencil button of row i: shown when the row is neither armed nor in edit mode
ClickEdit(i) ==
    /\ NoDeletionAuthorized
    /\ Rendered(i)
    /\ pending_delete_topic # i
    /\ ~edit_modes[i + 1]
    /\ entries < MaxEntries
    /\ entries' = entries + 1
    /\ toggle_edit_mode(i)

\* typing in the text_input keyed edit_{i} of a row in edit mode
TypeEdit(i, text) ==
    /\ NoDeletionAuthorized
    /\ Rendered(i)
    /\ edit_modes[i + 1]
    /\ edit' = [edit EXCEPT ![i] = text]
    /\ message' = ""
    /\ UNCHANGED <<students, student_name, topics, ratings, edit_modes,
                   delete_topic_index, pending_delete_topic, name_input, entries>>

\* a variant of confirm_topic_edit: the students' topic lists are the registry's list
confirm_topic_edit_shared(index) ==
    /\ topics' = [topics EXCEPT ![index + 1] = edit[index]]
    /\ edit_modes' = [edit_modes EXCEPT ![index + 1] = FALSE]
    /\ students' = [k \in 1..Len(students) |->
                       [students[k] EXCEPT !.Topics =
                           IF Len(@) > index THEN [@ EXCEPT ![index + 1] = edit[index]] ELSE @]]
    /\ message' = ""
    /\ UNCHANGED <<student_name, ratings, delete_topic_index,
                   pending_delete_topic, edit, name_input>>

confirm_topic_edit(index) ==
    /\ topics' = [topics EXCEPT ![index + 1] = edit[index]]
    /\ edit_modes' = [edit_modes EXCEPT ![index + 1] = FALSE]
    /\ message' = ""
    /\ UNCHANGED <<students, student_name, ratings, delete_topic_index,
                   pending_delete_topic, edit, name_input>>

\* the check button of a row in edit mode that is not armed
ClickConfirmEdit(i) ==
    /\ NoDeletionAuthorized
    /\ Rendered(i)
    /\ pending_delete_topic # i
    /\ edit_modes[i + 1]
    /\ confirm_topic_edit(i)
    /\ UNCHANGED entries

\* the selectbox of row i: st.session_state.ratings[i] = the chosen option
SetRating(i, symbol) ==
    /\ NoDeletionAuthorized
    /\ Rendered(i)
    /\ entries < MaxEntries
    /\ entries' = entries + 1
    /\ ratings' = [ratings EXCEPT ![i + 1] = symbol]
    /\ message' = ""
    /\ UNCHANGED <<students, student_name, topics, edit_modes, delete_topic_index,
                   pending_delete_topic, edit, name_input>>

\* a variant of add_new_topic: no edit-mode flag for the new topic
add_new_topic_no_flag ==
    LET new_topic == "Topic " \o ToString(Len(topics) + 1) IN
    /\ topics' = Append(topics, new_topic)
    /\ ratings' = Append(ratings, DEFAULT_RATING)
    /\ message' = ""
    /\ UNCHANGED <<students, student_name, edit_modes, delete_topic_index,
                   pending_delete_topic, edit, name_input>>

\* a variant of add_new_topic: the new topic gets no default name
add_new_topic_unnamed ==
    LET new_topic == "" IN
    /\ topics' = Append(topics, new_topic)
    /\ ratings' = Append(ratings, DEFAULT_RATING)
    /\ edit_modes' = Append(edit_modes, FALSE)
    /\ message' = ""
    /\ UNCHANGED <<students, student_name, delete_topic_index, pending_delete_topic,
                   edit, name_input>>

add_new_topic ==
    LET new_topic == "Topic " \o ToString(Len(topics) + 1) IN
    /\ topics' = Append(topics, new_topic)
    /\ ratings' = Append(ratings, DEFAULT_RATING)
    /\ edit_modes' = Append(edit_modes, FALSE)
    /\ message' = ""
    /\ UNCHANGED <<students, student_name, delete_topic_index, pending_delete_topic,
                   edit, name_input>>

ClickAddTopic ==
    /\ NoDeletionAuthorized
    /\ RenderCompletes
    /\ Len(topics) < MaxTopics
    /\ add_new_topic
    /\ UNCHANGED entries

\* a variant of delete_topic: the bin button authorizes the deletion at once
delete_topic_authorizes(index) ==
    /\ pending_delete_topic' = index
    /\ delete_topic_index' = index
    /\ message' = ""
    /\ UNCHANGED <<students, student_name, topics, ratings, edit_modes, edit, name_input>>

delete_topic(index) ==
    /\ pending_delete_topic' = index
    /\ message' = ""
    /\ UNCHANGED <<students, student_name, topics, ratings, edit_modes,
                   delete_topic_index, edit, name_input>>

\* the bin button of a row that is not armed
ClickDelete(i) ==
    /\ NoDeletionAuthorized
    /\ Rendered(i)
    /\ pending_delete_topic # i
    /\ delete_topic(i)
    /\ UNCHANGED entries

cancel_delete_topic ==
    /\ pending_delete_topic' = None
    /\ message' = ""
    /\ UNCHANGED <<students, student_name, topics, ratings, edit_modes,
                   delete_topic_index, edit, name_input>>

\* the cross button of the armed row
ClickCancelDelete(i) ==
    /\ NoDeletionAuthorized
    /\ Rendered(i)
    /\ pending_delete_topic = i
    /\ cancel_delete_topic
    /\ UNCHANGED entries

\* a variant of confirm_delete_topic: the row after the confirmed one is authorized
confirm_delete_topic_next(index) ==
    /\ delete_topic_index' = index + 1
    /\ pending_delete_topic' = None
    /\ message' = ""
    /\ UNCHANGED <<students, student_name, topics, ratings, edit_modes, edit, name_input>>

confirm_delete_topic(index) ==
    /\ delete_topic_index' = index
    /\ pending_delete_topic' = None
    /\ message' = ""
    /\ UNCHANGED <<students, student_name, topics, ratings, edit_modes, edit, name_input>>

\* the check button of the armed row
ClickConfirmDelete(i) ==
    /\ NoDeletionAuthorized
    /\ Rendered(i)
    /\ pending_delete_topic = i
    /\ confirm_delete_topic(i)
    /\ UNCHANGED entries

\* a variant of MoreThanOneTopic: len(st.session_state.topics) >= 1
AtLeastOneTopic == Len(topics) >= 1

\* if len(st.session_state.topics) > 1
MoreThanOneTopic == Len(topics) > 1

\* a variant of CascadeDelete: the rating of the deleted topic is kept
CascadeDeleteTopicOnly(student, deleted_topic) ==
    IF In(deleted_topic, student.Topics)
    THEN LET topic_index == IndexOf(deleted_topic, student.Topics) IN
         [student EXCEPT !.Topics = Del(student.Topics, topic_index)]
    ELSE student

\* one student after the loop body of process_topic_deletion
CascadeDelete(student, deleted_topic) ==
    IF In(deleted_topic, student.Topics)
    THEN LET topic_index == IndexOf(deleted_topic, student.Topics) IN
         [student EXCEPT !.Topics = Del(student.Topics, topic_index),
                         !.Ratings = Del(student.Ratings, topic_index)]
    ELSE student

\* a variant of ClearDeleteSlots: delete_topic_index is not reset
ClearPendingOnly ==
    /\ delete_topic_index' = delete_topic_index
    /\ pending_delete_topic' = None

\* the two assignments that end process_topic_deletion
ClearDeleteSlots ==
    /\ delete_topic_index' = None
    /\ pending_delete_topic' = None

process_topic_deletion ==
    /\ delete_topic_index # None
    /\ IF MoreThanOneTopic
       THEN LET index == delete_topic_index
                deleted_topic == topics[index + 1]
            IN /\ topics' = Del(topics, index)
               /\ ratings' = Del(ratings, index)
               /\ edit_modes' = Del(edit_modes, index)
               /\ students' = [k \in 1..Len(students) |->
                                  CascadeDelete(students[k], deleted_topic)]
               /\ message' = "Topic has been removed."
       ELSE /\ message' = "Cannot delete the last remaining topic."
            /\ UNCHANGED <<topics, ratings, edit_modes, students>>
    /\ ClearDeleteSlots
    /\ UNCHANGED <<student_name, edit, name_input, entries>>

----------------------------------------------------------------------------
(* Student roster handlers *)

\* a variant of add_student: the draft ratings are reset whatever the validation says
add_student_resets_always(name) ==
    LET error_message == validate_student_name(name, students) IN
    /\ IF error_message # "None"
       THEN /\ message' = error_message
            /\ UNCHANGED <<students, student_name>>
       ELSE LET numerical_ratings == [k \in 1..Len(ratings) |-> map_rating(ratings[k])] IN
            /\ students' = Append(students, [Name |-> name,
                                             Topics |-> topics,
                                             Ratings |-> numerical_ratings])
            /\ message' = "Student added successfully!"
            /\ student_name' = <<>>
    /\ ratings' = Times(DEFAULT_RATING, Len(topics))
    /\ UNCHANGED <<topics, edit_modes, delete_topic_index, pending_delete_topic, edit>>

\* the "if confirm_button:" block of add_student, with `name` in the name box
add_student(name) ==
    LET error_message == validate_student_name(name, students) IN
    /\ IF error_message # "None"
       THEN /\ message' = error_message
            /\ UNCHANGED <<students, student_name, ratings>>
       ELSE LET numerical_ratings == [k \in 1..Len(ratings) |-> map_rating(ratings[k])] IN
            /\ students' = Append(students, [Name |-> name,
                                             Topics |-> topics,
                                             Ratings |-> numerical_ratings])
            /\ message' = "Student added successfully!"
            /\ student_name' = <<>>
            /\ ratings' = Times(DEFAULT_RATING, Len(topics))
    /\ UNCHANGED <<topics, edit_modes, delete_topic_index, pending_delete_topic, edit>>

\* the "Add Student" button
ClickAddStudent(name) ==
    /\ NoDeletionAuthorized
    /\ RenderCompletes
    /\ Len(name) <= MaxChars
    /\ add_student(name)
    /\ UNCHANGED <<name_input, entries>>

\* a variant of reset_data: the draft ratings are left as they are
reset_data_keeps_ratings ==
    /\ students' = <<>>
    /\ student_name' = <<>>
    /\ message' = "All data has been reset."
    /\ UNCHANGED <<topics, ratings, edit_modes, delete_topic_index, pending_delete_topic,
                   edit, name_input>>

reset_data ==
    /\ students' = <<>>
    /\ student_name' = <<>>
    /\ ratings' = Times(DEFAULT_RATING, Len(topics))
    /\ message' = "All data has been reset."
    /\ UNCHANGED <<topics, edit_modes, delete_topic_index, pending_delete_topic,
                   edit, name_input>>

\* the "Reset Data" button of the sidebar, handled after add_student() returns
ClickReset ==
    /\ NoDeletionAuthorized
    /\ RenderCompletes
    /\ reset_data
    /\ UNCHANGED entries

----------------------------------------------------------------------------
Next ==
    \/ \E i \in Indices : ClickEdit(i)
    \/ \E i \in Indices, text \in EditTexts : TypeEdit(i, text)
    \/ \E i \in Indices : ClickConfirmEdit(i)
    \/ \E i \in Indices, k \in 1..Len(RatingOptions) : SetRating(i, RatingOptions[k])
    \/ ClickAddTopic
    \/ \E i \in Indices : ClickDelete(i)
    \/ \E i \in Indices : ClickCancelDelete(i)
    \/ \E i \in Indices : ClickConfirmDelete(i)
    \/ process_topic_deletion
    \/ \E name \in TypedNames : ClickAddStudent(name)
    \/ ClickReset

Spec == Init /\ [][Next]_vars

----------------------------------------------------------------------------
(* Charts: what main() computes from the session state at the end of a script run *)

\* the keys of {topic: 0 for topic in lst}: the different names, in the order of
\* their first occurrence
RECURSIVE DictKeys(_)
DictKeys(lst) ==
    IF lst = <<>> THEN <<>>
    ELSE LET front == DictKeys(SubSeq(lst, 1, Len(lst) - 1))
             last == lst[Len(lst)]
         IN IF In(last, front) THEN front ELSE Append(front, last)

\* zip(student['Topics'], student['Ratings']): the positions both lists have
ZipPositions(student) ==
    1..(IF Len(student.Topics) <= Len(student.Ratings)
        THEN Len(student.Topics) ELSE Len(student.Ratings))

\* a variant of PlusCount: a student counts once for a topic name
PlusCountStudents(topic, studs) ==
    Cardinality({ s \in 1..Len(studs) :
                    \E k \in ZipPositions(studs[s]) :
                       studs[s].Topics[k] = topic /\ studs[s].Ratings[k] = 10 })

\* topic_counts[topic] after the two loops: one increment for every pair
\* (topic, 10) of every student
PlusCount(topic, studs) ==
    Cardinality({ pair \in UNION { { <<s, k>> : k \in ZipPositions(studs[s]) } :
                                     s \in 1..Len(studs) } :
                    /\ studs[pair[1]].Topics[pair[2]] = topic
                    /\ studs[pair[1]].Ratings[pair[2]] = 10 })

\* the DataFrame before it is sorted: one row for every key of topic_counts
CountsFrame ==
    LET keys == DictKeys(topics) IN
    [k \in 1..Len(keys) |-> [Topic |-> keys[k], Count |-> PlusCount(keys[k], students)]]

\* the orders 1..n can be put in
Orders(n) == { f \in [1..n -> 1..n] : \A a, b \in 1..n : a # b => f[a] # f[b] }

\* a variant of SortValuesDescending: ascending=True
SortValuesAscending(frame) ==
    { [k \in 1..Len(frame) |-> frame[f[k]]] :
         f \in { g \in Orders(Len(frame)) :
                   \A a, b \in 1..Len(frame) :
                      a < b => frame[g[a]].Count <= frame[g[b]].Count } }

\* df.sort_values(column, ascending=False), with the default kind='quicksort': the
\* rows by descending count; pandas does not fix the order of rows with equal
\* counts for this kind, so every such order is a possible result
SortValuesDescending(frame) ==
    { [k \in 1..Len(frame) |-> frame[f[k]]] :
         f \in { g \in Orders(Len(frame)) :
                   \A a, b \in 1..Len(frame) :
                      a < b => frame[g[a]].Count >= frame[g[b]].Count } }

\* the frames generate_class_performance_chart can plot; none with an empty roster
generate_class_performance_chart ==
    IF students = <<>> THEN {} ELSE SortValuesDescending(CountsFrame)

\* [x for x, topic in zip(values, student['Topics']) if topic in current_topics]
RECURSIVE KeepCurrent(_, _, _)
KeepCurrent(values, names, current_topics) ==
    IF values = <<>> \/ names = <<>> THEN <<>>
    ELSE LET rest == KeepCurrent(Tail(values), Tail(names), current_topics) IN
         IF In(Head(names), current_topics) THEN <<Head(values)>> \o rest ELSE rest

\* a variant of generate_individual_performance_chart: nothing is filtered out
individual_chart_unfiltered(student) ==
    [theta |-> student.Topics, r |-> student.Ratings]

\* theta and r of the radar chart of one student
generate_individual_performance_chart(student) ==
    [theta |-> KeepCurrent(student.Topics, student.Topics, topics),
     r |-> KeepCurrent(student.Ratings, student.Topics, topics)]

----------------------------------------------------------------------------
(* The session of a user who never opens a topic editor: every other handler, *)
(* with up to MaxRatings changes of a rating.                                 *)

\* the selectbox of row i, as SetRating
RateTopic(i, symbol) ==
    /\ NoDeletionAuthorized
    /\ Rendered(i)
    /\ entries < MaxRatings
    /\ entries' = entries + 1
    /\ ratings' = [ratings EXCEPT ![i + 1] = symbol]
    /\ message' = ""
    /\ UNCHANGED <<students, student_name, topics, edit_modes, delete_topic_index,
                   pending_delete_topic, edit, name_input>>

NextNoEdit ==
    \/ \E i \in Indices, k \in 1..Len(RatingOptions) : RateTopic(i, RatingOptions[k])
    \/ ClickAddTopic
    \/ \E i \in Indices : ClickDelete(i)
    \/ \E i \in Indices : ClickCancelDelete(i)
    \/ \E i \in Indices : ClickConfirmDelete(i)
    \/ process_topic_deletion
    \/ \E name \in TypedNames : ClickAddStudent(name)
    \/ ClickReset

SpecNoEdit == Init /\ [][NextNoEdit]_vars

----------------------------------------------------------------------------
(* validate_student_name on its own: the roster and the name are drawn from  *)
(* bounded sets and the submission handler is applied to them.               *)

Student(name) == [Name |-> name, Topics |-> <<DEFAULT_TOPIC>>, Ratings |-> <<0>>]

\* rosters add_student can have built: typed names, all different
Rosters ==
    {<<>>}
    \cup { <<Student(a)>> : a \in {NameAl, Nameal, NameBo} }
    \cup { <<Student(p[1]), Student(p[2])>> :
               p \in { q \in {NameAl, Nameal, NameBo} \X {NameAl, Nameal, NameBo} :
                          q[1] # q[2] } }

InitValidate ==
    /\ students \in Rosters
    /\ name_input \in ValidateNames
    /\ student_name = <<>>
    /\ topics = <<DEFAULT_TOPIC>>
    /\ ratings = <<DEFAULT_RATING>>
    /\ edit_modes = <<FALSE>>
    /\ delete_topic_index = None
    /\ pending_delete_topic = None
    /\ edit = <<>>
    /\ message = ""
    /\ entries = 0

SubmitInput ==
    /\ add_student(name_input)
    /\ UNCHANGED <<name_input, entries>>

NextValidate == SubmitInput

SpecValidate == InitValidate /\ [][NextValidate]_vars

----------------------------------------------------------------------------
(* Properties *)

RemovedMessage == "Topic has been removed."
LastTopicMessage == "Cannot delete the last remaining topic."
AddedMessage == "Student added successfully!"
EmptyMessage == "Student name cannot be empty."
TooLongMessage == "Student name cannot exceed the maximum length."
WhitespaceMessage == "Student name cannot have leading or trailing whitespaces."
ExistsMessage == "Student already exists."
ResetMessage == "All data has been reset."

RejectionMessages == {EmptyMessage, TooLongMessage, WhitespaceMessage, ExistsMessage}

\* C1: the topic names, the draft ratings and the editing flags always have the
\* same length.
C1_ListsAligned ==
    /\ Len(ratings) = Len(topics)
    /\ Len(edit_modes) = Len(topics)

\* a topic was added and another removed while a student is on the roster
C1_Witness ==
    /\ message = RemovedMessage
    /\ students # <<>>
    /\ topics = <<"Topic 2">>

\* C2: the registry always holds at least one topic.
C2_AtLeastOneTopic == Len(topics) >= 1

\* the deletion of the only topic was confirmed and refused
C2_Witness ==
    /\ message = LastTopicMessage
    /\ Len(topics) = 1

\* C3: every student record has as many ratings as topics.
C3_StudentAligned ==
    \A k \in 1..Len(students) : Len(students[k].Topics) = Len(students[k].Ratings)

\* a cascading deletion shortened the record of a student submitted with two topics
C3_Witness ==
    /\ message = RemovedMessage
    /\ \E k \in 1..Len(students) :
          /\ Len(students[k].Topics) = 1
          /\ students[k].Topics # topics

\* C4: when process_topic_deletion removes topic T (more than one topic), every
\* student that stores T loses exactly the pair at the first position holding T,
\* the other pairs keeping their values and order; every other student is unchanged.
C4_CascadeFirstPair ==
    [][ (delete_topic_index # None /\ Len(topics) > 1) =>
          LET T == topics[delete_topic_index + 1] IN
          /\ Len(students') = Len(students)
          /\ \A k \in 1..Len(students) :
                LET before == students[k]
                    after == students'[k]
                    n == Len(before.Topics)
                IN IF \E p \in 1..n : before.Topics[p] = T
                   THEN \E p \in 1..n :
                          /\ before.Topics[p] = T
                          /\ \A q \in 1..(p - 1) : before.Topics[q] # T
                          /\ after.Name = before.Name
                          /\ Len(after.Topics) = n - 1
                          /\ Len(after.Ratings) = Len(before.Ratings) - 1
                          /\ \A q \in 1..(p - 1) :
                                /\ after.Topics[q] = before.Topics[q]
                                /\ after.Ratings[q] = before.Ratings[q]
                          /\ \A q \in p..(n - 1) :
                                /\ after.Topics[q] = before.Topics[q + 1]
                                /\ after.Ratings[q] = before.Ratings[q + 1]
                   ELSE after = before
      ]_vars

\* a topic was removed while one student rated it and another never stored it
C4_Witness ==
    /\ message = RemovedMessage
    /\ Len(students) = 2
    /\ Len(students[1].Topics) = 1
    /\ Len(students[2].Topics) = 1
    /\ students[1].Topics # students[2].Topics

\* C5: with a deletion authorized and exactly one topic, process_topic_deletion
\* changes no list and no student, reports the last-topic error and clears both slots.
C5_LastTopicRejected ==
    [][ (delete_topic_index # None /\ Len(topics) = 1) =>
          /\ UNCHANGED <<topics, ratings, edit_modes, students>>
          /\ message' = LastTopicMessage
          /\ delete_topic_index' = None
          /\ pending_delete_topic' = None
      ]_vars

\* the refusal happened with a student on the roster and a draft rating set
C5_Witness ==
    /\ message = LastTopicMessage
    /\ students # <<>>
    /\ ratings # <<DEFAULT_RATING>>

\* C6: the first failing rule decides the outcome of a submission: empty, then
\* longer than 128, then leading or trailing whitespace, then a name already on
\* the roster (exact match); a name failing none is accepted.
C6_ValidationOrder ==
    [][ message' =
          IF Len(name_input) = 0 THEN EmptyMessage
          ELSE IF Len(name_input) > 128 THEN TooLongMessage
          ELSE IF name_input[1] \in Whitespace \/ name_input[Len(name_input)] \in Whitespace
               THEN WhitespaceMessage
          ELSE IF \E k \in 1..Len(students) : students[k].Name = name_input
               THEN ExistsMessage
          ELSE AddedMessage
      ]_vars

\* a name that is too long and starts with a space was reported as too long
C6_Witness ==
    /\ message = TooLongMessage
    /\ name_input[1] \in Whitespace

\* C7: a rejected submission changes neither the roster, nor the topic names, the
\* draft ratings, the editing flags or the two delete slots.
C7_RejectedSubmitNoChange ==
    [][ message' \in RejectionMessages =>
          UNCHANGED <<students, topics, ratings, edit_modes,
                      pending_delete_topic, delete_topic_index>>
      ]_vars

\* a duplicate name was rejected while a draft rating was set and a topic armed
C7_Witness ==
    /\ message = ExistsMessage
    /\ \E k \in 1..Len(ratings) : ratings[k] # DEFAULT_RATING
    /\ pending_delete_topic # None

\* C8: no two student records have the same name.
C8_UniqueNames ==
    \A j, k \in 1..Len(students) : j # k => students[j].Name # students[k].Name

\* two students differing in case only are on the roster and a third submission
\* of one of the names was rejected
C8_Witness ==
    /\ Len(students) = 2
    /\ message = ExistsMessage

\* C9: an accepted submission appends one record holding the current topic names
\* and the encoded draft ratings ('+' -> 10, '~' -> 5, '-' -> 0); afterwards every
\* draft rating is '-', and topic names, editing flags and earlier records are
\* unchanged.
C9_SubmitAppendsSnapshot ==
    [][ message' = AddedMessage =>
          /\ Len(students') = Len(students) + 1
          /\ SubSeq(students', 1, Len(students)) = students
          /\ LET record == students'[Len(students')] IN
             /\ record.Topics = topics
             /\ Len(record.Ratings) = Len(ratings)
             /\ \A k \in 1..Len(ratings) :
                   record.Ratings[k] = IF ratings[k] = "+" THEN 10
                                       ELSE IF ratings[k] = "~" THEN 5
                                       ELSE 0
          /\ Len(ratings') = Len(topics')
          /\ \A k \in 1..Len(ratings') : ratings'[k] = "-"
          /\ topics' = topics
          /\ edit_modes' = edit_modes
      ]_vars

\* a second student was accepted with a '~' on the second of two topics
C9_Witness ==
    /\ message = AddedMessage
    /\ Len(students) = 2
    /\ students[2].Ratings = <<0, 5>>

\* C10: confirm_topic_edit, add_new_topic, a rating change and a later accepted
\* submission leave the records already on the roster as they were.
C10_SnapshotIndependent ==
    [][ ( \/ /\ delete_topic_index = None
             /\ Len(topics') = Len(topics)
             /\ \E i \in 1..Len(topics) : edit_modes[i] /\ ~edit_modes'[i]
          \/ Len(topics') = Len(topics) + 1
          \/ /\ Len(ratings') = Len(ratings)
             /\ ratings' # ratings
             /\ message' = ""
          \/ message' = AddedMessage )
        => /\ Len(students') >= Len(students)
           /\ SubSeq(students', 1, Len(students)) = students
      ]_vars

\* a topic was renamed after a student was submitted with its old name
C10_Witness ==
    /\ Len(students) = 1
    /\ students[1].Topics = <<DEFAULT_TOPIC>>
    /\ topics = <<"">>

C15_NamesNonEmpty == \A i \in 1..Len(topics) : topics[i] # ""

\* C15, amended: the name of the initial topic is non-empty, and the registry gets
\* one more empty name only in a step that confirms the edit of a topic whose
\* edit field holds the empty string; adding, deleting, resetting and submitting
\* never make a name empty.
C15_EmptyOnlyByEdit ==
    /\ \A i \in 1..Len(topics) : topics[i] # ""
    /\ [][ Cardinality({ i \in 1..Len(topics') : topics'[i] = "" })
              > Cardinality({ i \in 1..Len(topics) : topics[i] = "" })
           => \E index \in Indices :
                 /\ edit_modes[index + 1]
                 /\ index \in DOMAIN edit
                 /\ edit[index] = ""
                 /\ topics' = [topics EXCEPT ![index + 1] = ""]
                 /\ ~edit_modes'[index + 1] ]_vars

\* an edit with an empty field was confirmed, next to a topic that was added
C15_Witness ==
    /\ Len(topics) = 2
    /\ topics[1] = ""
    /\ topics[2] = "Topic 2"
    /\ edit_modes = <<FALSE, FALSE>>

\* C16: every topic in edit mode has an edit field stored under its current index
\* (the field render_topic_interface reads), also after a deletion at a lower
\* index moved the edit flags down.
C16_EditFieldDefined ==
    \A i \in Indices : edit_modes[i + 1] => i \in DOMAIN edit

\* C17: without renames, add_new_topic never appends a name the registry already
\* holds, so the topic names are pairwise distinct.
C17_NamesDistinct ==
    \A i, j \in 1..Len(topics) : i # j => topics[i] # topics[j]

\* C18: a deletion is authorized only for the index that is armed at that moment
\* (armed by the bin button and not cancelled since), and the registry loses a
\* topic only in a step that applies an authorized deletion, at that index; a
\* cancel authorizes nothing and removes nothing.
C18_DeleteNeedsArmAndConfirm ==
    [][ /\ delete_topic_index' # None =>
              /\ delete_topic_index = None
              /\ pending_delete_topic = delete_topic_index'
        /\ Len(topics') < Len(topics) =>
              /\ delete_topic_index # None
              /\ topics' = Del(topics, delete_topic_index)
        /\ (pending_delete_topic # None /\ pending_delete_topic' = None
               /\ delete_topic_index' = None /\ delete_topic_index = None) =>
              topics' = topics ]_vars

\* the second of two topics was armed and confirmed, and its deletion applied
C18_Witness ==
    /\ message = RemovedMessage
    /\ topics = <<"Topic 1">>
    /\ pending_delete_topic = None
    /\ delete_topic_index = None

\* C19: the armed index and the authorized index, when set, are smaller than the
\* number of topics.
C19_IndicesInRange ==
    /\ pending_delete_topic # None => pending_delete_topic \in Indices
    /\ delete_topic_index # None => delete_topic_index \in Indices

\* the deletion of the last row is authorized
C19_Witness ==
    /\ Len(topics) >= 2
    /\ delete_topic_index = Len(topics) - 1

\* C20: a deletion keeps, for every topic name the registry still holds, each
\* student's stored pairs with that name as they were.
C20_DeletionKeepsOthers ==
    [][ message' = RemovedMessage =>
           LET RECURSIVE PairsOf(_, _)
               PairsOf(student, name) ==
                   IF student.Topics = <<>> THEN <<>>
                   ELSE LET rest == PairsOf([Topics |-> Tail(student.Topics),
                                             Ratings |-> Tail(student.Ratings)], name)
                        IN IF Head(student.Topics) = name
                           THEN <<Head(student.Ratings)>> \o rest
                           ELSE rest
           IN \A s \in 1..Len(students) :
                 \A i \in 1..Len(topics') :
                    PairsOf(students'[s], topics'[i]) = PairsOf(students[s], topics'[i]) ]_vars
====
